---------------------------- MODULE Spec2Model ----------------------------
(***************************************************************************)
(* A model of kedro/io/tensorflow_model_data_set.py: the two dataset       *)
(* adapters TensorFlowModelDataset and TensorFlowModelVersionedDataset,    *)
(* their constructors and their _load/_save/_exists/_describe methods,     *)
(* over an abstract storage of model artifacts.                            *)
(*                                                                         *)
(* A filepath string is a record [scheme, parts]: "s3://bucket/model" is   *)
(* [scheme |-> "s3", parts |-> <<"bucket", "model">>] and "data/model" is  *)
(* [scheme |-> "", parts |-> <<"data", "model">>].  An options mapping is  *)
(* a function from key strings to value strings ("None", "True", ...).     *)
(* An optional argument is a record [given, map].                          *)
(*                                                                         *)
(* The public load, save, exists and describe of the base classes call the *)
(* methods modelled here and hand their errors on to the caller, so a call *)
(* ends as its method ends.  tf.keras.models.load_model and save_model,    *)
(* and the version resolution of AbstractVersionedDataSet, are modelled by *)
(* what the design document says of them: the external routines store and *)
(* return an artifact as it is, whatever the options they are handed.      *)
(***************************************************************************)
EXTENDS Naturals, Sequences, FiniteSets, TLC

\* ------------------------------------------------------------------ bounds

\* The number of save calls a behaviour may hold (each advances the clock).
MaxClock == 3
\* The number of past calls kept per instance for the properties.
HistLen == 3
\* The number of save calls in the two-process specification.
MaxClockTwo == 2

\* ------------------------------------------------------------------ inputs

Instances == {1, 2}
Models == {"m1", "m2"}
NoneId == "None"

LocalPath == [scheme |-> "", parts |-> <<"data", "model">>]
OtherPath == [scheme |-> "", parts |-> <<"out">>]
RemotePath == [scheme |-> "s3", parts |-> <<"bucket", "model">>]
FilePaths == {LocalPath, RemotePath}

NoArgs == [given |-> FALSE, map |-> [k \in {} |-> "None"]]
Given(m) == [given |-> TRUE, map |-> m]
\* <<load_args, save_args>> pairs handed to a constructor.
ArgsInputs ==
    { <<NoArgs, NoArgs>>,
      <<Given([compile |-> "False", options |-> "opts"]),
        Given([overwrite |-> "False"])>>,
      <<Given([custom_objects |-> "objs"]),
        Given([include_optimizer |-> "False", save_traces |-> "False"])>> }

NoVersion == [given |-> FALSE, load |-> NoneId, save |-> NoneId]
Version(l, s) == [given |-> TRUE, load |-> l, save |-> s]
VersionInputs ==
    { NoVersion, Version(NoneId, NoneId), Version("2", NoneId),
      Version(NoneId, "2"), Version("2", "2") }

\* ----------------------------------------------------------------- helpers

Last(s) == s[Len(s)]
IsPrefix(p, s) == Len(p) <= Len(s) /\ SubSeq(s, 1, Len(p)) = p
EmptyStorage == [l \in {} |-> [data |-> "m0", at |-> 0]]
Put(st, loc, entry) ==
    [l \in DOMAIN st \cup {loc} |-> IF l = loc THEN entry ELSE st[l]]
NoLoc == [scheme |-> "", parts |-> <<>>]

\* DEFAULT_LOAD_ARGS and DEFAULT_SAVE_ARGS as the class bodies set them.
InitialLoadArgs == [custom_objects |-> "None", compile |-> "True"]
InitialSaveArgs ==
    [overwrite |-> "True", include_optimizer |-> "True", save_format |-> "tf",
     signatures |-> "None", options |-> "None"]

\* dict.update: the supplied keys override, the other keys stay.
DictUpdate(d, u) ==
    [k \in DOMAIN d \cup DOMAIN u |-> IF k \in DOMAIN u THEN u[k] ELSE d[k]]

\* "Handle default load and save arguments": the instance's mapping is a
\* deep copy of the class-level default, updated when a mapping is supplied.
\* The class-level mapping is returned as the code leaves it.
HandleArgs_alias(defaults, supplied) ==
    LET merged == IF supplied.given THEN DictUpdate(defaults, supplied.map)
                  ELSE defaults
    IN [effective |-> merged, defaults |-> merged]

HandleArgs_defaults_win(defaults, supplied) ==
    [effective |-> IF supplied.given THEN DictUpdate(supplied.map, defaults)
                   ELSE defaults,
     defaults |-> defaults]

HandleArgs(defaults, supplied) ==
    [effective |-> IF supplied.given THEN DictUpdate(defaults, supplied.map)
                   ELSE defaults,
     defaults |-> defaults]

\* pathlib.PurePath(filepath): "//" collapses, so the scheme of
\* "s3://bucket/model" becomes the first segment "s3:" of a local path.
PurePath(fp) ==
    [scheme |-> "",
     parts |-> IF fp.scheme = "" THEN fp.parts
               ELSE <<fp.scheme \o ":">> \o fp.parts]

\* kedro.io.core.get_protocol_and_path: the protocol ("file" without a
\* prefix) and the path with the prefix removed.
get_protocol_and_path(fp) ==
    [protocol |-> IF fp.scheme = "" THEN "file" ELSE fp.scheme,
     path |-> [scheme |-> "", parts |-> fp.parts]]

\* fsspec.filesystem(protocol, **credentials, **fs_args); credentials and
\* fs_args are absent here, so both deep copies are empty mappings.
Filesystem(protocol) == [protocol |-> protocol]

\* ------------------------------------------------------------------- state

VARIABLES
    DEFAULT_LOAD_ARGS,  \* class -> the class-level default load mapping
    DEFAULT_SAVE_ARGS,  \* class -> the class-level default save mapping
    inst,               \* instance -> its fields
    args,               \* instance -> the arguments its constructor was given
    storage,            \* location -> [data, at]: the stored artifacts
    storage0,           \* the storage before the first call
    clock,              \* the time: the timestamps and the write order
    hist,               \* instance -> its last calls, newest first
    lastSaved,          \* instance -> the artifact of its last successful save
    pc,                 \* instance -> its position in a two-step call
    local,              \* instance -> the path resolved by the first step
    nctor,              \* the number of constructor calls so far
    keep,               \* the number of past calls hist keeps per instance
    maxclock            \* the number of save calls the behaviour may hold

vars == <<DEFAULT_LOAD_ARGS, DEFAULT_SAVE_ARGS, inst, args, storage, storage0,
          clock, hist, lastSaved, pc, local, nctor, keep,
          maxclock>>

Classes == {"TensorFlowModelDataset", "TensorFlowModelVersionedDataset"}
Unversioned == "TensorFlowModelDataset"
Versioned == "TensorFlowModelVersionedDataset"

NoInst ==
    [cls |-> "none", filepath |-> NoLoc, protocol |-> "none",
     fs |-> Filesystem("none"), version |-> NoVersion, data |-> "None",
     load_args |-> InitialLoadArgs, save_args |-> InitialSaveArgs]
NoCtorArgs ==
    [filepath |-> NoLoc, load_args |-> NoArgs, save_args |-> NoArgs,
     version |-> NoVersion]
NoDesc ==
    [filepath |-> NoLoc, load_args |-> InitialLoadArgs,
     save_args |-> InitialSaveArgs, version |-> NoVersion]
NoSaved == [data |-> "None", ver |-> NoneId, loc |-> NoLoc]
NoRes == [ok |-> FALSE, loc |-> NoLoc, ver |-> NoneId]
NoLocal == [res |-> NoRes, data |-> "None"]

\* A call's record: the operation, how it ended ("ok", "error": an error
\* propagated to the caller, "declined": a save the external routine did not
\* carry out), what it returned (desc: the mapping _describe returned), the
\* path it resolved and the version used.
Call(op, status, value, loc, ver) ==
    [op |-> op, status |-> status, value |-> value, loc |-> loc, ver |-> ver,
     desc |-> NoDesc]
Push(h, c) ==
    LET s == <<c>> \o h
    IN SubSeq(s, 1, IF Len(s) > keep THEN keep ELSE Len(s))

\* A versioned artifact saved by an earlier run under LocalPath.
OldVersionLoc == [scheme |-> "", parts |-> <<"data", "model", "2", "model">>]
InitStorages ==
    { EmptyStorage,
      Put(EmptyStorage, LocalPath, [data |-> "m0", at |-> 0]),
      Put(EmptyStorage, OldVersionLoc, [data |-> "m0", at |-> 0]) }

InitWith(st, k, mc) ==
    /\ keep = k
    /\ maxclock = mc
    /\ DEFAULT_LOAD_ARGS = [c \in Classes |-> InitialLoadArgs]
    /\ DEFAULT_SAVE_ARGS = [c \in Classes |-> InitialSaveArgs]
    /\ inst = [i \in Instances |-> NoInst]
    /\ args = [i \in Instances |-> NoCtorArgs]
    /\ storage = st
    /\ storage0 = st
    /\ clock = 0
    /\ hist = [i \in Instances |-> <<>>]
    /\ lastSaved = [i \in Instances |-> NoSaved]
    /\ pc = [i \in Instances |-> "idle"]
    /\ local = [i \in Instances |-> NoLocal]
    /\ nctor = 0

Init == \E st \in InitStorages : InitWith(st, HistLen, MaxClock)

\* ------------------------------------------------------------ constructors

\* What a constructor call changes besides the fields: the instance starts
\* with no calls made.
Constructed(i, fields, ctorargs, la, sa) ==
    /\ pc[i] = "idle"
    /\ inst' = [inst EXCEPT ![i] = fields]
    /\ args' = [args EXCEPT ![i] = ctorargs]
    /\ DEFAULT_LOAD_ARGS' = [DEFAULT_LOAD_ARGS EXCEPT ![fields.cls] = la.defaults]
    /\ DEFAULT_SAVE_ARGS' = [DEFAULT_SAVE_ARGS EXCEPT ![fields.cls] = sa.defaults]
    /\ hist' = [hist EXCEPT ![i] = <<>>]
    /\ lastSaved' = [lastSaved EXCEPT ![i] = NoSaved]
    /\ nctor' = nctor + 1
    /\ UNCHANGED <<storage, storage0, clock, pc, local, keep, maxclock>>

TensorFlowModelDataset_init(i, filepath, load_args, save_args) ==
    LET la == HandleArgs(DEFAULT_LOAD_ARGS[Unversioned], load_args)
        sa == HandleArgs(DEFAULT_SAVE_ARGS[Unversioned], save_args)
    IN Constructed(i,
         [cls |-> Unversioned, filepath |-> filepath, protocol |-> "none",
          fs |-> Filesystem("none"), version |-> NoVersion, data |-> "None",
          load_args |-> la.effective, save_args |-> sa.effective],
         [filepath |-> filepath, load_args |-> load_args,
          save_args |-> save_args, version |-> NoVersion],
         la, sa)

TensorFlowModelVersionedDataset_init(i, filepath, load_args, save_args, version) ==
    LET pp == get_protocol_and_path(filepath)
        la == HandleArgs(DEFAULT_LOAD_ARGS[Versioned], load_args)
        sa == HandleArgs(DEFAULT_SAVE_ARGS[Versioned], save_args)
    IN Constructed(i,
         [cls |-> Versioned, filepath |-> PurePath(filepath),
          protocol |-> pp.protocol, fs |-> Filesystem(pp.protocol),
          version |-> version, data |-> "None",
          load_args |-> la.effective, save_args |-> sa.effective],
         [filepath |-> filepath, load_args |-> load_args,
          save_args |-> save_args, version |-> version],
         la, sa)

\* ------------------------------------------------- external collaborators

\* pathlib.Path(x).is_dir(): x, read as a local path, is a directory: an
\* artifact's directory or one above it.
IsDir(st, x) ==
    \E l \in DOMAIN st :
        l.scheme = "" /\ IsPrefix(PurePath(x).parts, l.parts)

\* tf.keras.models.load_model(path, **load_args): the artifact stored at the
\* path, an error when there is none.
LoadModel(st, loc, load_args) ==
    IF loc \in DOMAIN st
    THEN [status |-> "ok", value |-> st[loc].data]
    ELSE [status |-> "error", value |-> "None"]

\* tf.keras.models.save_model(data, path, **save_args): writes the artifact
\* at the path; with overwrite false and the path present, the routine asks
\* before it overwrites (proceed).
SaveModel(st, loc, data, save_args, proceed, now) ==
    IF save_args["overwrite"] = "False" /\ ~proceed
       /\ (\E l \in DOMAIN st : l.scheme = loc.scheme /\ IsPrefix(loc.parts, l.parts))
    THEN [status |-> "declined", storage |-> st]
    ELSE [status |-> "ok", storage |-> Put(st, loc, [data |-> data, at |-> now])]

\* ------------------------------------------- version resolution (kedro.io)

\* AbstractVersionedDataSet._get_versioned_path: <base>/<version>/<name>.
GetVersionedPath(fp, v) ==
    [scheme |-> "", parts |-> fp.parts \o <<v, Last(fp.parts)>>]

\* The versions that exist under the base path (exists_function is is_dir).
VersionsUnder(st, fp) ==
    { l \in DOMAIN st :
        /\ l.scheme = ""
        /\ Len(l.parts) = Len(fp.parts) + 2
        /\ IsPrefix(fp.parts, l.parts)
        /\ Last(l.parts) = Last(fp.parts) }

MostRecent(st, ls) == CHOOSE l \in ls : \A m \in ls : st[m].at <= st[l].at

\* _get_load_path: the base path without a version descriptor; the explicit
\* load identifier's path; else the most recent existing version, and a
\* failure when there is none.
GetLoadPath(ds, st) ==
    IF ~ds.version.given
    THEN [ok |-> TRUE, loc |-> ds.filepath, ver |-> NoneId]
    ELSE IF ds.version.load # NoneId
    THEN [ok |-> TRUE, loc |-> GetVersionedPath(ds.filepath, ds.version.load),
          ver |-> ds.version.load]
    ELSE LET vs == VersionsUnder(st, ds.filepath) IN
         IF vs = {} THEN NoRes
         ELSE LET l == MostRecent(st, vs)
              IN [ok |-> TRUE, loc |-> l, ver |-> l.parts[Len(l.parts) - 1]]

\* Whether _get_save_path generates a new identifier.
GeneratesVersion(ds) == ds.version.given /\ ds.version.save = NoneId

\* _get_save_path: the base path without a version descriptor; the explicit
\* save identifier's path; else the path of a new identifier, the timestamp.
GetSavePath(ds, now) ==
    IF ~ds.version.given
    THEN [ok |-> TRUE, loc |-> ds.filepath, ver |-> NoneId]
    ELSE IF ds.version.save # NoneId
    THEN [ok |-> TRUE, loc |-> GetVersionedPath(ds.filepath, ds.version.save),
          ver |-> ds.version.save]
    ELSE [ok |-> TRUE, loc |-> GetVersionedPath(ds.filepath, ToString(now)),
          ver |-> ToString(now)]

\* ------------------------------------------------------------- operations

Returned(i, call) == hist' = [hist EXCEPT ![i] = Push(@, call)]

\* What a finished save call leaves: the storage as the external routine
\* left it, the time advanced, and the record of the call.
Stored(i, r, loc, ver, data) ==
    /\ storage' = r.storage
    /\ clock' = clock + 1
    /\ lastSaved' = IF r.status = "ok"
                    THEN [lastSaved EXCEPT ![i] =
                            [data |-> data, ver |-> ver, loc |-> loc]]
                    ELSE lastSaved
    /\ Returned(i, Call("save", r.status, data, loc, ver))

\* Loads from a path other than self._filepath.
TensorFlowModelDataset_load_other(i) ==
    /\ inst[i].cls = Unversioned /\ pc[i] = "idle"
    /\ LET r == LoadModel(storage, OtherPath, inst[i].load_args)
       IN Returned(i, Call("load", r.status, r.value, inst[i].filepath, NoneId))
    /\ UNCHANGED <<DEFAULT_LOAD_ARGS, DEFAULT_SAVE_ARGS, inst, args, storage,
                   storage0, clock, lastSaved, pc, local, nctor,
                   keep, maxclock>>

TensorFlowModelDataset_load(i) ==
    /\ inst[i].cls = Unversioned /\ pc[i] = "idle"
    /\ LET r == LoadModel(storage, inst[i].filepath, inst[i].load_args)
       IN Returned(i, Call("load", r.status, r.value, inst[i].filepath, NoneId))
    /\ UNCHANGED <<DEFAULT_LOAD_ARGS, DEFAULT_SAVE_ARGS, inst, args, storage,
                   storage0, clock, lastSaved, pc, local, nctor,
                   keep, maxclock>>

TensorFlowModelDataset_save(i, data) ==
    /\ inst[i].cls = Unversioned /\ pc[i] = "idle"
    /\ clock < maxclock
    /\ \E proceed \in BOOLEAN :
         Stored(i, SaveModel(storage, inst[i].filepath, data, inst[i].save_args,
                             proceed, clock + 1),
                inst[i].filepath, NoneId, data)
    /\ UNCHANGED <<DEFAULT_LOAD_ARGS, DEFAULT_SAVE_ARGS, inst, args, storage0,
                   pc, local, nctor,
                   keep, maxclock>>

\* is_dir without the call: a bound method, which is always truthy.
TensorFlowModelDataset_exists_truthy(i) ==
    /\ inst[i].cls = Unversioned /\ pc[i] = "idle"
    /\ Returned(i, Call("exists", "ok", "True", inst[i].filepath, NoneId))
    /\ UNCHANGED <<DEFAULT_LOAD_ARGS, DEFAULT_SAVE_ARGS, inst, args, storage,
                   storage0, clock, lastSaved, pc, local, nctor,
                   keep, maxclock>>

TensorFlowModelDataset_exists(i) ==
    /\ inst[i].cls = Unversioned /\ pc[i] = "idle"
    /\ Returned(i, Call("exists", "ok",
                        IF IsDir(storage, inst[i].filepath) THEN "True" ELSE "False",
                        inst[i].filepath, NoneId))
    /\ UNCHANGED <<DEFAULT_LOAD_ARGS, DEFAULT_SAVE_ARGS, inst, args, storage,
                   storage0, clock, lastSaved, pc, local, nctor,
                   keep, maxclock>>

TensorFlowModelDataset_describe(i) ==
    /\ inst[i].cls = Unversioned /\ pc[i] = "idle"
    /\ Returned(i, [Call("describe", "ok", "None", NoLoc, NoneId) EXCEPT !.desc =
           [filepath |-> inst[i].filepath, load_args |-> inst[i].load_args,
            save_args |-> inst[i].save_args, version |-> NoVersion]])
    /\ UNCHANGED <<DEFAULT_LOAD_ARGS, DEFAULT_SAVE_ARGS, inst, args, storage,
                   storage0, clock, lastSaved, pc, local, nctor,
                   keep, maxclock>>

\* The versioned adapter's calls in two parts: the path is resolved (r), then
\* the external routine acts on it.
Loaded(i, r) ==
    /\ LET m == LoadModel(storage, r.loc, inst[i].load_args)
       IN Returned(i, IF r.ok THEN Call("load", m.status, m.value, r.loc, r.ver)
                      ELSE Call("load", "error", "None", NoLoc, NoneId))
    /\ UNCHANGED <<DEFAULT_LOAD_ARGS, DEFAULT_SAVE_ARGS, inst, args, storage,
                   storage0, clock, lastSaved, nctor,
                   keep, maxclock>>

Saved(i, r, data) ==
    /\ \E proceed \in BOOLEAN :
         Stored(i, SaveModel(storage, r.loc, data, inst[i].save_args, proceed,
                             clock + 1),
                r.loc, r.ver, data)
    /\ UNCHANGED <<DEFAULT_LOAD_ARGS, DEFAULT_SAVE_ARGS, inst, args, storage0,
                   nctor, keep, maxclock>>

Existed(i, r) ==
    /\ Returned(i, IF r.ok
                   THEN Call("exists", "ok",
                             IF IsDir(storage, r.loc) THEN "True" ELSE "False",
                             r.loc, r.ver)
                   ELSE Call("exists", "error", "None", NoLoc, NoneId))
    /\ UNCHANGED <<DEFAULT_LOAD_ARGS, DEFAULT_SAVE_ARGS, inst, args, storage,
                   storage0, clock, lastSaved, nctor,
                   keep, maxclock>>

\* A failed load returned as an empty artifact instead of propagated.
TensorFlowModelVersionedDataset_load_swallow(i) ==
    /\ inst[i].cls = Versioned /\ pc[i] = "idle"
    /\ LET r == GetLoadPath(inst[i], storage)
           m == LoadModel(storage, r.loc, inst[i].load_args)
       IN Returned(i, IF r.ok /\ m.status = "ok"
                      THEN Call("load", "ok", m.value, r.loc, r.ver)
                      ELSE Call("load", "ok", "None", NoLoc, NoneId))
    /\ UNCHANGED <<DEFAULT_LOAD_ARGS, DEFAULT_SAVE_ARGS, inst, args, storage,
                   storage0, clock, lastSaved, pc, local, nctor,
                   keep, maxclock>>

\* The version a load resolved is kept in the instance's version descriptor.
TensorFlowModelVersionedDataset_load_pins(i) ==
    /\ inst[i].cls = Versioned /\ pc[i] = "idle"
    /\ LET r == GetLoadPath(inst[i], storage)
           m == LoadModel(storage, r.loc, inst[i].load_args)
       IN /\ Returned(i, IF r.ok THEN Call("load", m.status, m.value, r.loc, r.ver)
                         ELSE Call("load", "error", "None", NoLoc, NoneId))
          /\ inst' = IF r.ok /\ inst[i].version.given
                     THEN [inst EXCEPT ![i].version.load = r.ver]
                     ELSE inst
    /\ UNCHANGED <<DEFAULT_LOAD_ARGS, DEFAULT_SAVE_ARGS, args, storage,
                   storage0, clock, lastSaved, pc, local, nctor,
                   keep, maxclock>>

TensorFlowModelVersionedDataset_load(i) ==
    /\ inst[i].cls = Versioned /\ pc[i] = "idle"
    /\ Loaded(i, GetLoadPath(inst[i], storage))
    /\ UNCHANGED <<pc, local>>

\* Saves at the path _get_load_path resolves instead of _get_save_path.
TensorFlowModelVersionedDataset_save_at_load_path(i, data) ==
    /\ inst[i].cls = Versioned /\ pc[i] = "idle"
    /\ clock < maxclock
    /\ GetLoadPath(inst[i], storage).ok
    /\ Saved(i, GetLoadPath(inst[i], storage), data)
    /\ UNCHANGED <<pc, local>>

TensorFlowModelVersionedDataset_save(i, data) ==
    /\ inst[i].cls = Versioned /\ pc[i] = "idle"
    /\ clock < maxclock
    /\ Saved(i, GetSavePath(inst[i], clock + 1), data)
    /\ UNCHANGED <<pc, local>>

TensorFlowModelVersionedDataset_exists(i) ==
    /\ inst[i].cls = Versioned /\ pc[i] = "idle"
    /\ Existed(i, GetLoadPath(inst[i], storage))
    /\ UNCHANGED <<pc, local>>

TensorFlowModelVersionedDataset_describe(i) ==
    /\ inst[i].cls = Versioned /\ pc[i] = "idle"
    /\ Returned(i, [Call("describe", "ok", "None", NoLoc, NoneId) EXCEPT !.desc =
           [filepath |-> inst[i].filepath, load_args |-> inst[i].load_args,
            save_args |-> inst[i].save_args, version |-> inst[i].version]])
    /\ UNCHANGED <<DEFAULT_LOAD_ARGS, DEFAULT_SAVE_ARGS, inst, args, storage,
                   storage0, clock, lastSaved, pc, local, nctor,
                   keep, maxclock>>

\* --------------------------------------------- one adapter, call after call

ConstructUnversioned ==
    /\ inst[1].cls = "none"
    /\ \E fp \in FilePaths, a \in ArgsInputs :
         TensorFlowModelDataset_init(1, fp, a[1], a[2])

ConstructVersioned ==
    /\ inst[1].cls = "none"
    /\ \E fp \in FilePaths, a \in ArgsInputs, v \in VersionInputs :
         TensorFlowModelVersionedDataset_init(1, fp, a[1], a[2], v)

Next ==
    \/ ConstructUnversioned
    \/ ConstructVersioned
    \/ TensorFlowModelDataset_load(1)
    \/ \E data \in Models : TensorFlowModelDataset_save(1, data)
    \/ TensorFlowModelDataset_exists(1)
    \/ TensorFlowModelDataset_describe(1)
    \/ TensorFlowModelVersionedDataset_load(1)
    \/ \E data \in Models : TensorFlowModelVersionedDataset_save(1, data)
    \/ TensorFlowModelVersionedDataset_exists(1)
    \/ TensorFlowModelVersionedDataset_describe(1)

Spec == Init /\ [][Next]_vars

\* ------------------------------------- two adapters, as two processes

\* A versioned call's first step: _get_load_path or _get_save_path; its
\* second step is the external routine on the path resolved.
ResolveStep(i, kind, r, data) ==
    /\ inst[i].cls = Versioned /\ pc[i] = "idle"
    /\ pc' = [pc EXCEPT ![i] = kind]
    /\ local' = [local EXCEPT ![i] = [res |-> r, data |-> data]]
    /\ UNCHANGED <<DEFAULT_LOAD_ARGS, DEFAULT_SAVE_ARGS, inst, args, storage,
                   storage0, hist, lastSaved, nctor,
                   keep, maxclock>>

FinishStep(i, kind) ==
    /\ pc[i] = kind
    /\ pc' = [pc EXCEPT ![i] = "idle"]
    /\ local' = [local EXCEPT ![i] = NoLocal]

LoadResolve(i) ==
    /\ ResolveStep(i, "load", GetLoadPath(inst[i], storage), "None")
    /\ UNCHANGED clock

LoadFinish(i) == FinishStep(i, "load") /\ Loaded(i, local[i].res)

ExistsResolve(i) ==
    /\ ResolveStep(i, "exists", GetLoadPath(inst[i], storage), "None")
    /\ UNCHANGED clock

ExistsFinish(i) == FinishStep(i, "exists") /\ Existed(i, local[i].res)

SaveResolve(i, data) ==
    /\ clock < maxclock
    /\ ResolveStep(i, "save", GetSavePath(inst[i], clock + 1), data)
    /\ clock' = IF GeneratesVersion(inst[i]) THEN clock + 1 ELSE clock

SaveFinish(i) == FinishStep(i, "save") /\ Saved(i, local[i].res, local[i].data)

FilePathsTwo == {LocalPath, OtherPath}
ArgsInputsTwo ==
    { <<NoArgs, NoArgs>>,
      <<Given([compile |-> "False", options |-> "opts"]),
        Given([include_optimizer |-> "False"])>> }
VersionInputsTwo == { Version(NoneId, NoneId), Version("2", NoneId) }

\* The instances are constructed once each, instance 1 first.
ConstructibleTwo(i) ==
    inst[i].cls = "none" /\ \A j \in Instances : j < i => inst[j].cls # "none"

ConstructUnversionedTwo(i) ==
    /\ ConstructibleTwo(i)
    /\ \E fp \in FilePathsTwo, a \in ArgsInputsTwo :
         TensorFlowModelDataset_init(i, fp, a[1], a[2])

ConstructVersionedTwo(i) ==
    /\ ConstructibleTwo(i)
    /\ \E fp \in FilePathsTwo, a \in ArgsInputsTwo, v \in VersionInputsTwo :
         TensorFlowModelVersionedDataset_init(i, fp, a[1], a[2], v)

NextTwo ==
    \E i \in Instances :
        \/ ConstructUnversionedTwo(i)
        \/ ConstructVersionedTwo(i)
        \/ TensorFlowModelDataset_load(i)
        \/ \E data \in Models : TensorFlowModelDataset_save(i, data)
        \/ TensorFlowModelDataset_exists(i)
        \/ TensorFlowModelDataset_describe(i)
        \/ LoadResolve(i)
        \/ LoadFinish(i)
        \/ \E data \in Models : SaveResolve(i, data)
        \/ SaveFinish(i)
        \/ ExistsResolve(i)
        \/ ExistsFinish(i)
        \/ TensorFlowModelVersionedDataset_describe(i)

SpecTwo == InitWith(EmptyStorage, 1, MaxClockTwo) /\ [][NextTwo]_vars

\* ------------------------------------------------------------- properties

IsConstructed(i) == inst[i].cls # "none"
Called(i, op) == hist[i] # <<>> /\ hist[i][1].op = op
\* The last two calls on instance i were a successful save, then a load.
SavedThenLoaded(i) ==
    /\ Len(hist[i]) >= 2
    /\ hist[i][1].op = "load"
    /\ hist[i][2].op = "save" /\ hist[i][2].status = "ok"
\* load resolves the version ver that a save wrote: there is no version
\* descriptor, or no explicit load identifier, or the load identifier is ver.
LoadsVersion(ds, ver) ==
    \/ ~ds.version.given
    \/ ds.version.load = NoneId
    \/ ds.version.load = ver

\* C1, as stated: for either adapter and any version descriptor, a successful
\* save(m) immediately followed by load() on the same instance returns m.
C1_RoundTripAnyVersion ==
    \A i \in Instances :
        SavedThenLoaded(i) =>
            hist[i][1].status = "ok" /\ hist[i][1].value = hist[i][2].value

\* C1, amended: a successful save(m) immediately followed by load() on the same
\* instance returns m when the version descriptor is absent, has no explicit
\* load identifier, or has the load identifier of the version the save wrote.
C1_RoundTrip ==
    \A i \in Instances :
        SavedThenLoaded(i) /\ LoadsVersion(inst[i], hist[i][2].ver) =>
            hist[i][1].status = "ok" /\ hist[i][1].value = hist[i][2].value

\* A versioned adapter with a descriptor loaded back the second artifact it
\* saved, an older artifact being stored beside it.
C1_Witness ==
    /\ inst[1].cls = Versioned /\ inst[1].version.given
    /\ SavedThenLoaded(1) /\ hist[1][1].value = "m2"
    /\ \E l \in DOMAIN storage : storage[l].data = "m1"

\* The filepath named nothing, locally or remotely, before the first call.
AbsentAtStart(fp) ==
    ~\E l \in DOMAIN storage0 :
        \/ l.scheme = fp.scheme /\ IsPrefix(fp.parts, l.parts)
        \/ l.scheme = "" /\ IsPrefix(PurePath(fp).parts, l.parts)
SavedAt(loc) == loc \in DOMAIN storage /\ storage[loc].at > 0
ExistingLocalDirectory(fp) ==
    \E l \in DOMAIN storage : l.scheme = "" /\ IsPrefix(PurePath(fp).parts, l.parts)

\* C2, as stated: on a filepath that did not exist at the start, the
\* unversioned adapter's exists() returns false before the first successful
\* save on the path and true after it, and is true exactly when the filepath
\* is an existing local directory.
C2_ExistsFollowsSave ==
    \A i \in Instances :
        inst[i].cls = Unversioned /\ AbsentAtStart(inst[i].filepath)
        /\ Called(i, "exists") =>
            /\ hist[i][1].status = "ok"
            /\ hist[i][1].value = "True" <=> SavedAt(inst[i].filepath)
            /\ hist[i][1].value = "True" <=> ExistingLocalDirectory(inst[i].filepath)

\* C2, amended: the same for a filepath without a protocol prefix (a local
\* path); for any filepath exists() is true exactly when the filepath, read as
\* a local path, is an existing directory.
C2_ExistsFollowsLocalSave ==
    \A i \in Instances :
        inst[i].cls = Unversioned /\ Called(i, "exists") =>
            /\ hist[i][1].status = "ok"
            /\ hist[i][1].value = "True" <=> ExistingLocalDirectory(inst[i].filepath)
            /\ AbsentAtStart(inst[i].filepath) /\ inst[i].filepath.scheme = "" =>
                 (hist[i][1].value = "True" <=> SavedAt(inst[i].filepath))

\* exists() was false, then a save succeeded, then exists() was true.
C2_Witness ==
    /\ inst[1].cls = Unversioned /\ inst[1].filepath = LocalPath
    /\ AbsentAtStart(LocalPath)
    /\ Len(hist[1]) = 3
    /\ hist[1][3].op = "exists" /\ hist[1][3].value = "False"
    /\ hist[1][2].op = "save" /\ hist[1][2].status = "ok"
    /\ hist[1][1].op = "exists" /\ hist[1][1].value = "True"

\* The last two calls on instance i were successful saves.
SavedTwice(i, k) ==
    /\ Len(hist[i]) >= k + 1
    /\ hist[i][k].op = "save" /\ hist[i][k].status = "ok"
    /\ hist[i][k + 1].op = "save" /\ hist[i][k + 1].status = "ok"
TwoVersions(i, k) ==
    /\ hist[i][k].loc # hist[i][k + 1].loc
    /\ hist[i][k + 1].loc \in DOMAIN storage
    /\ storage[hist[i][k + 1].loc].data = hist[i][k + 1].value
LatestLoaded(i) ==
    Len(hist[i]) >= 3 /\ hist[i][1].op = "load" /\ SavedTwice(i, 2)
    /\ inst[i].version.load = NoneId =>
        hist[i][1].status = "ok" /\ hist[i][1].value = hist[i][2].value

\* C3, as stated: two sequential successful saves on a versioned adapter given
\* no explicit save identifier write two distinct version paths, the first
\* artifact staying, and a following load without explicit load identifier
\* returns the second artifact.
C3_TwoSavesNoSaveId ==
    \A i \in Instances :
        inst[i].cls = Versioned /\ inst[i].version.save = NoneId =>
            /\ SavedTwice(i, 1) => TwoVersions(i, 1)
            /\ LatestLoaded(i)

\* C3, amended: the same for a versioned adapter constructed with a version
\* descriptor whose save identifier is absent.
C3_TwoSavesVersioned ==
    \A i \in Instances :
        inst[i].cls = Versioned /\ GeneratesVersion(inst[i]) =>
            /\ SavedTwice(i, 1) => TwoVersions(i, 1)
            /\ SavedTwice(i, 2) => TwoVersions(i, 2)
            /\ LatestLoaded(i)

\* m1 was saved, then m2, then load returned m2.
C3_Witness ==
    /\ inst[1].cls = Versioned /\ inst[1].version = Version(NoneId, NoneId)
    /\ Len(hist[1]) = 3 /\ SavedTwice(1, 2)
    /\ hist[1][3].value = "m1" /\ hist[1][2].value = "m2"
    /\ hist[1][1].op = "load" /\ hist[1][1].value = "m2"

\* C4: a versioned adapter whose descriptor has neither identifier, on a base
\* path holding no versions: exists() returns false, without failing, before
\* the first save and true after every successful save.
C4_ExistsBeforeAndAfterSave ==
    \A i \in Instances :
        inst[i].cls = Versioned /\ inst[i].version = Version(NoneId, NoneId)
        /\ VersionsUnder(storage0, inst[i].filepath) = {}
        /\ Called(i, "exists") =>
            /\ hist[i][1].status = "ok"
            /\ hist[i][1].value = "True" <=> lastSaved[i].data # "None"

\* There is nothing to load for instance i: no path is resolved, or no
\* artifact is stored at the path resolved.
NothingToLoad(i) ==
    IF inst[i].cls = Unversioned THEN inst[i].filepath \notin DOMAIN storage
    ELSE LET r == GetLoadPath(inst[i], storage)
         IN ~r.ok \/ r.loc \notin DOMAIN storage
CallStep(i) == hist'[i] # hist[i] /\ hist'[i] # <<>>

\* C5: a load() with no artifact at the path it resolves ends in an error
\* propagated to the caller, not in an empty artifact, and leaves the stored
\* artifacts, the time and the adapters' fields as they were.
C5_MissingLoadFails ==
    [][\A i \in Instances :
         CallStep(i) /\ hist'[i][1].op = "load" /\ NothingToLoad(i) =>
            /\ hist'[i][1].status = "error"
            /\ storage' = storage /\ inst' = inst /\ clock' = clock]_vars

\* A load of the versioned adapter failed, and one of the unversioned would.
C5_Witness ==
    /\ inst[1].cls = Versioned /\ Called(1, "load")
    /\ hist[1][1].status = "error" /\ NothingToLoad(1)

C6_LoadDefaults == [custom_objects |-> "None", compile |-> "True"]
C6_SaveDefaults ==
    [overwrite |-> "True", include_optimizer |-> "True", save_format |-> "tf",
     signatures |-> "None", options |-> "None"]
\* eff is def overlaid with the supplied mapping: supplied keys map to the
\* supplied values, the other default keys to the defaults, and nothing else.
IsOverlay(eff, supplied, def) ==
    LET given == IF supplied.given THEN DOMAIN supplied.map ELSE {}
    IN /\ DOMAIN eff = DOMAIN def \cup given
       /\ \A k \in given : eff[k] = supplied.map[k]
       /\ \A k \in DOMAIN def \ given : eff[k] = def[k]

C7_DefaultsUntouched ==
    /\ \A c \in Classes :
        /\ DEFAULT_LOAD_ARGS[c] = C6_LoadDefaults
        /\ DEFAULT_SAVE_ARGS[c] = C6_SaveDefaults
    /\ \A i \in Instances :
        IsConstructed(i) =>
            /\ \A k \in DOMAIN inst[i].load_args :
                 ~(args[i].load_args.given /\ k \in DOMAIN args[i].load_args.map) =>
                    k \in DOMAIN C6_LoadDefaults
                    /\ inst[i].load_args[k] = C6_LoadDefaults[k]
            /\ \A k \in DOMAIN inst[i].save_args :
                 ~(args[i].save_args.given /\ k \in DOMAIN args[i].save_args.map) =>
                    k \in DOMAIN C6_SaveDefaults
                    /\ inst[i].save_args[k] = C6_SaveDefaults[k]

\* Two instances of one class, the first given overrides and the second none,
\* and the second has saved and loaded.
C7_Witness ==
    /\ IsConstructed(1) /\ inst[2].cls = inst[1].cls
    /\ args[1].load_args.given /\ ~args[2].load_args.given
    /\ lastSaved[2].data # "None" /\ Called(2, "load")

\* C8: every save, load, exists and describe call leaves the adapters' fields
\* (filepath, options, protocol, backend handle, version descriptor) as they
\* were, and only a save changes the stored artifacts.
C8_Frame ==
    [][/\ nctor' = nctor => inst' = inst
       /\ clock' = clock => storage' = storage
       /\ \A i \in Instances :
            CallStep(i) =>
                /\ inst'[i] = inst[i]
                /\ hist'[i][1].op # "save" => storage' = storage]_vars

\* A versioned adapter on a remote filepath has saved, loaded and described.
C8_Witness ==
    /\ inst[1].cls = Versioned /\ args[1].filepath = RemotePath
    /\ Len(hist[1]) = 3
    /\ hist[1][3].op = "save" /\ hist[1][3].status = "ok"
    /\ hist[1][2].op = "load" /\ hist[1][2].status = "ok"
    /\ hist[1][1].op = "describe"

\* C9: a versioned adapter keeps the protocol parsed from its filepath, builds
\* its backend handle from it, and retains (and describes) as base path the
\* filepath with the protocol prefix removed.
C9_PrefixRemoved ==
    \A i \in Instances :
        inst[i].cls = Versioned =>
            LET fp == args[i].filepath
                protocol == IF fp.scheme = "" THEN "file" ELSE fp.scheme
                path == [scheme |-> "", parts |-> fp.parts]
            IN /\ inst[i].protocol = protocol
               /\ inst[i].fs = Filesystem(protocol)
               /\ inst[i].filepath = path
               /\ Called(i, "describe") => hist[i][1].desc.filepath = path

\* The paths instance i may resolve.
VersionIds == {ToString(n) : n \in 1..(maxclock + 2)} \cup {"2"}
PathsOf(ds) ==
    IF ds.cls = Versioned /\ ds.version.given
    THEN {GetVersionedPath(ds.filepath, v) : v \in VersionIds}
    ELSE {ds.filepath}
OptionsAsConstructed(i) ==
    /\ IsOverlay(inst[i].load_args, args[i].load_args, C6_LoadDefaults)
    /\ IsOverlay(inst[i].save_args, args[i].save_args, C6_SaveDefaults)

\* C10, as stated: for two distinct instances run as two processes, each
\* instance's load() returns the artifact last successfully saved through
\* that instance, and its effective options stay as constructed.
C10_Independent ==
    \A i \in Instances :
        IsConstructed(i) =>
            /\ OptionsAsConstructed(i)
            /\ Called(i, "load") /\ lastSaved[i].data # "None" =>
                 hist[i][1].status = "ok" /\ hist[i][1].value = lastSaved[i].data

\* C10, amended: the same for two instances that resolve no common storage
\* path, each loading the version it saves (no version descriptor, no explicit
\* load identifier, or the load identifier of the version saved).
C10_IndependentPaths ==
    \A i \in Instances :
        IsConstructed(i) =>
            /\ OptionsAsConstructed(i)
            /\ Called(i, "load") /\ lastSaved[i].data # "None"
               /\ LoadsVersion(inst[i], lastSaved[i].ver)
               /\ (\A j \in Instances \ {i} :
                     IsConstructed(j) => PathsOf(inst[i]) \cap PathsOf(inst[j]) = {}) =>
                 hist[i][1].status = "ok" /\ hist[i][1].value = lastSaved[i].data

\* Two adapters on different paths each saved and loaded back its own artifact.
C10_Witness ==
    /\ IsConstructed(1) /\ IsConstructed(2)
    /\ inst[1].cls = Versioned /\ inst[2].cls = Unversioned
    /\ inst[1].filepath # inst[2].filepath
    /\ Called(1, "load") /\ hist[1][1].value = "m1"
    /\ Called(2, "load") /\ hist[2][1].value = "m2"

=============================================================================
